---- MODULE Spec2Model ----
(***************************************************************************)
(* A model of npg_irods/utilities.py: the concurrent check/repair drivers  *)
(* (check_checksums, repair_checksums, check_replicas, repair_replicas,    *)
(* check_common_metadata, repair_common_metadata), the copy engine and the *)
(* safe-removal planner.                                                   *)
(*                                                                         *)
(* The module holds several specifications over one set of variables:      *)
(*   SpecItem    the per-item functions applied to one data object         *)
(*   Spec        one run of a driver (thread pool, client pool, print lock)*)
(*   SpecFair    Spec with fair scheduling, for termination                *)
(*   SpecCopy    two successive calls of copy(A, B, ...)                   *)
(*   SpecRemove  write_safe_remove_commands on a collection tree           *)
(* A specification leaves the variables of the others at their idle value. *)
(***************************************************************************)
EXTENDS Integers, Sequences, FiniteSets, TLC

VARIABLES
    \* SpecItem
    obj,        \* the data object in iRODS (replicas, checksum AVUs, common metadata)
    before,     \* the object as it was before the last call of a per-item function
    log,        \* the calls of per-item functions made so far, oldest first
    \* Spec (driver run)
    cfg,        \* the arguments of the driver call
    next,       \* index of the next input line the thread pool hands out
    pc,         \* position of each worker thread
    cur,        \* input line each worker is processing (0: none)
    out,        \* outcome computed by each worker for its line, until fn returns
    calls,      \* number of invocations of fn per input line
    conn,       \* workers holding a baton client of the client pool
    lock,       \* workers inside the `with print_lock` block
    results,    \* per input line: the value fn returned, or Pending
    writer,     \* what has been written to the writer, write by write
    status,     \* "idle", "running", "returned", "raised"
    ret,        \* the value the driver returned
    \* SpecRemove
    tree,       \* the collection tree in iRODS: its target, items and collections
    order,      \* how the storage client orders two paths
    visited,    \* the items target.iter_contents(recurse=True) has yielded
    collections,\* the local list `collections`
    plan,       \* the commands written to the writer, in order
    rmpc,       \* position in write_safe_remove_commands
    \* SpecCopy
    store,      \* the items in iRODS, by path
    copies      \* the calls of copy made so far, oldest first

itemVars == <<obj, before, log>>
drvVars  == <<cfg, next, pc, cur, out, calls, conn, lock, results, writer, status, ret>>
rmVars   == <<tree, order, visited, collections, plan, rmpc>>
copyVars == <<store, copies>>
nonItemVars == <<next, pc, cur, out, calls, conn, lock, results, writer, status, ret,
                 rmVars, copyVars>>
nonDrvVars  == <<itemVars, rmVars, copyVars>>
nonRmVars   == <<itemVars, drvVars, copyVars>>
nonCopyVars == <<itemVars, drvVars, rmVars>>
vars     == <<obj, before, log, cfg, next, pc, cur, out, calls, conn, lock, results,
              writer, status, ret, tree, order, visited, collections, plan, rmpc,
              store, copies>>

---------------------------------------------------------------------------
(* Bounds *)

MaxReplicas == 4      \* replicas of one data object
NumChecksums == 2     \* distinct checksum values
MaxCalls == 2         \* per-item function calls on one object in SpecItem
MaxLines == 2         \* input lines of one driver run
MaxThreads == 2       \* num_threads
MaxClients == 2       \* num_clients

---------------------------------------------------------------------------
(* Data objects *)

NoChecksum == 0
Checksums == 1..NumChecksums

Replicas == [valid : BOOLEAN, checksum : Checksums \cup {NoChecksum}]

\* Replica order carries no meaning for the per-item functions; objects are
\* drawn with their replicas in one canonical order.
Rank(r) == (IF r.valid THEN 0 ELSE NumChecksums + 1) + r.checksum

Sorted(s) == \A i \in 1..(Len(s) - 1) : Rank(s[i]) <= Rank(s[i + 1])

ReplicaLists == {s \in UNION {[1..k -> Replicas] : k \in 0..MaxReplicas} : Sorted(s)}

\* md5: the values of the object's checksum (DataFile.MD5) AVUs.
\* created / typed: creation and type metadata present.
\* reqCreation / reqType: the policy requires them for this object.
DataObjects ==
    [replicas : ReplicaLists, md5 : SUBSET Checksums,
     created : BOOLEAN, typed : BOOLEAN, reqCreation : BOOLEAN, reqType : BOOLEAN]

NoMeta(o) == o.created /\ o.typed /\ ~o.reqCreation /\ ~o.reqType

ValidReplicas(o) == SelectSeq(o.replicas, LAMBDA r : r.valid)
InvalidReplicas(o) == SelectSeq(o.replicas, LAMBDA r : ~r.valid)

Range(s) == {s[i] : i \in 1..Len(s)}

ValidChecksums(o) == {r.checksum : r \in Range(ValidReplicas(o))}

---------------------------------------------------------------------------
(* npg_irods.metadata.common: the predicate library *)

has_complete_checksums(o) == \A r \in Range(ValidReplicas(o)) : r.checksum # NoChecksum

has_matching_checksums(o) == Cardinality(ValidChecksums(o)) <= 1

has_checksum_metadata(o) == Cardinality(o.md5) = 1

has_matching_checksum_metadata(o) ==
    /\ has_matching_checksums(o)
    /\ Len(ValidReplicas(o)) >= 1
    /\ has_complete_checksums(o)
    /\ o.md5 = ValidChecksums(o)

has_creation_metadata(o) == o.created
has_type_metadata(o) == o.typed
requires_creation_metadata(o) == o.reqCreation
requires_type_metadata(o) == o.reqType

has_common_metadata(o) ==
    /\ has_checksum_metadata(o)
    /\ requires_creation_metadata(o) => has_creation_metadata(o)
    /\ requires_type_metadata(o) => has_type_metadata(o)

has_complete_replicas(o, n) == Len(ValidReplicas(o)) = n

\* <<number of excess valid replicas, number of invalid replicas>>
trimmable_replicas(o, n) ==
    <<IF Len(ValidReplicas(o)) > n THEN Len(ValidReplicas(o)) - n ELSE 0,
      Len(InvalidReplicas(o))>>

has_trimmable_replicas(o, n) ==
    trimmable_replicas(o, n)[1] > 0 \/ trimmable_replicas(o, n)[2] > 0

\* The value of a call that may change the object: what it returns and the
\* object afterwards.
Val(v, o) == [value |-> v, obj |-> o]

ensure_matching_checksum_metadata(o) ==
    IF has_matching_checksum_metadata(o) THEN Val(FALSE, o)
    ELSE IF /\ has_matching_checksums(o)
            /\ has_complete_checksums(o)
            /\ Len(ValidReplicas(o)) >= 1
         THEN Val(TRUE, [o EXCEPT !.md5 = ValidChecksums(o)])
         ELSE Val(FALSE, o)

ensure_common_metadata(o) ==
    LET o1 == IF requires_creation_metadata(o) /\ ~has_creation_metadata(o)
              THEN [o EXCEPT !.created = TRUE] ELSE o
        o2 == IF requires_type_metadata(o1) /\ ~has_type_metadata(o1)
              THEN [o1 EXCEPT !.typed = TRUE] ELSE o1
        o3 == IF ~has_checksum_metadata(o2)
              THEN ensure_matching_checksum_metadata(o2).obj ELSE o2
    IN  Val(o3 # o, o3)

\* DataObject.trim_replicas(valid, invalid): removes the valid replicas in
\* excess of n when valid is set and the invalid ones when invalid is set.
KeepValid(o, n) ==
    IF Len(ValidReplicas(o)) > n THEN SubSeq(ValidReplicas(o), 1, n) ELSE ValidReplicas(o)

trim_replicas(o, n, valid, invalid) ==
    Val(<<IF valid THEN trimmable_replicas(o, n)[1] ELSE 0,
          IF invalid THEN trimmable_replicas(o, n)[2] ELSE 0>>,
        [o EXCEPT !.replicas =
            (IF valid THEN KeepValid(o, n) ELSE ValidReplicas(o))
            \o (IF invalid THEN <<>> ELSE InvalidReplicas(o))])

---------------------------------------------------------------------------
(* Errors raised by the storage client while an item is processed *)

\* kind: what is raised; at: the call that raises it (0: the first read of
\* the object, k > 0: the k-th call that modifies the object).  A call that
\* raises leaves the object as it was.
ErrorKinds == {"RodsError", "ChecksumError", "Exception"}

NoFault == [kind |-> "none", at |-> 0]

Faults == {NoFault} \cup [kind : ErrorKinds, at : 0..2]

Raises(fault, k) == fault.kind # "none" /\ fault.at = k

\* An `except` clause catches the error kinds that are instances of its class.
Catches(clause, kind) == clause = kind \/ clause = "Exception"

Flags == [print_pass : BOOLEAN, print_repair : BOOLEAN, print_fail : BOOLEAN]

\* What one call of a per-item function did: the flags it returns, whether an
\* error was raised inside it and whether it escaped the function, whether
\* the path is printed, the object afterwards and the modifying calls made.
\* ok records whether the object was already correct for the function.
Outcome(success, repair, print, o, ops, ok) ==
    [success |-> success, repair |-> repair, raised |-> FALSE, escaped |-> FALSE,
     print |-> print, obj |-> o, ops |-> ops, ok |-> ok]

\* The except clauses of the per-item functions: every clause logs and
\* prints the path when print_fail is set; success and repair keep the value
\* they had when the error was raised (False).
Except(clauses, fault, fl, o, ops, ok) ==
    [success |-> FALSE, repair |-> FALSE, raised |-> TRUE,
     escaped |-> ~(\E c \in clauses : Catches(c, fault.kind)),
     print |-> (\E c \in clauses : Catches(c, fault.kind)) /\ fl.print_fail,
     obj |-> o, ops |-> ops, ok |-> ok]

\* The clauses without the final `except Exception`.
AllClauses_NoCatchAll == {"RodsError", "ChecksumError"}

AllClauses == {"RodsError", "ChecksumError", "Exception"}
RodsClauses == {"RodsError", "Exception"}

---------------------------------------------------------------------------
(* The per-item functions *)

\* check_checksums.fn repairing the checksum metadata it finds wrong.
check_checksums_fn_Repairs(o, n, fault, fl) ==
    LET ok == has_matching_checksum_metadata(o)
        e  == ensure_matching_checksum_metadata(o)
    IN  IF Raises(fault, 0) THEN Except(AllClauses, fault, fl, o, <<>>, ok)
        ELSE IF has_matching_checksum_metadata(o)
             THEN Outcome(TRUE, FALSE, fl.print_pass, o, <<>>, ok)
             ELSE Outcome(FALSE, FALSE, fl.print_fail, e.obj,
                          <<"ensure_matching_checksum_metadata">>, ok)

check_checksums_fn(o, n, fault, fl) ==
    LET ok == has_matching_checksum_metadata(o) IN
    IF Raises(fault, 0) THEN Except(AllClauses, fault, fl, o, <<>>, ok)
    ELSE IF has_matching_checksum_metadata(o)
         THEN Outcome(TRUE, FALSE, fl.print_pass, o, <<>>, ok)
         ELSE Outcome(FALSE, FALSE, fl.print_fail, o, <<>>, ok)

\* repair_checksums.fn setting only success after a repair.
repair_checksums_fn_NoRepairFlag(o, n, fault, fl) ==
    LET ok == has_matching_checksum_metadata(o)
        e  == ensure_matching_checksum_metadata(o)
    IN  IF Raises(fault, 0) THEN Except(AllClauses, fault, fl, o, <<>>, ok)
        ELSE IF has_matching_checksum_metadata(o)
             THEN Outcome(TRUE, FALSE, FALSE, o, <<>>, ok)
             ELSE IF Raises(fault, 1)
                  THEN Except(AllClauses, fault, fl, o, <<>>, ok)
                  ELSE IF e.value
                       THEN Outcome(TRUE, FALSE, fl.print_repair, e.obj,
                                    <<"ensure_matching_checksum_metadata">>, ok)
                       ELSE Outcome(FALSE, FALSE, FALSE, e.obj,
                                    <<"ensure_matching_checksum_metadata">>, ok)

\* repair_checksums.fn setting success whatever the repair returned.
repair_checksums_fn_AlwaysSuccess(o, n, fault, fl) ==
    LET ok == has_matching_checksum_metadata(o)
        e  == ensure_matching_checksum_metadata(o)
    IN  IF Raises(fault, 0) THEN Except(AllClauses, fault, fl, o, <<>>, ok)
        ELSE IF has_matching_checksum_metadata(o)
             THEN Outcome(TRUE, FALSE, FALSE, o, <<>>, ok)
             ELSE IF Raises(fault, 1)
                  THEN Except(AllClauses, fault, fl, o, <<>>, ok)
                  ELSE Outcome(TRUE, e.value, e.value /\ fl.print_repair, e.obj,
                               <<"ensure_matching_checksum_metadata">>, ok)

repair_checksums_fn(o, n, fault, fl) ==
    LET ok == has_matching_checksum_metadata(o)
        e  == ensure_matching_checksum_metadata(o)
    IN  IF Raises(fault, 0) THEN Except(AllClauses, fault, fl, o, <<>>, ok)
        ELSE IF has_matching_checksum_metadata(o)
             THEN Outcome(TRUE, FALSE, FALSE, o, <<>>, ok)
             ELSE IF Raises(fault, 1)
                  THEN Except(AllClauses, fault, fl, o, <<>>, ok)
                  ELSE IF e.value
                       THEN Outcome(TRUE, TRUE, fl.print_repair, e.obj,
                                    <<"ensure_matching_checksum_metadata">>, ok)
                       ELSE Outcome(FALSE, FALSE, FALSE, e.obj,
                                    <<"ensure_matching_checksum_metadata">>, ok)

\* check_replicas.fn testing only that the replicas are complete.
check_replicas_fn_CompleteOnly(o, n, fault, fl) ==
    LET comp == has_complete_replicas(o, n)
        trim == has_trimmable_replicas(o, n)
        ok   == comp /\ ~trim
    IN  IF Raises(fault, 0) THEN Except(RodsClauses, fault, fl, o, <<>>, ok)
        ELSE IF comp
             THEN Outcome(TRUE, FALSE, fl.print_pass, o, <<>>, ok)
             ELSE Outcome(FALSE, FALSE, fl.print_fail, o, <<>>, ok)

check_replicas_fn(o, n, fault, fl) ==
    LET comp == has_complete_replicas(o, n)
        trim == has_trimmable_replicas(o, n)
        ok   == comp /\ ~trim
    IN  IF Raises(fault, 0) THEN Except(RodsClauses, fault, fl, o, <<>>, ok)
        ELSE IF comp /\ ~trim
             THEN Outcome(TRUE, FALSE, fl.print_pass, o, <<>>, ok)
             ELSE Outcome(FALSE, FALSE, fl.print_fail, o, <<>>, ok)

\* DataObject.trim_replicas is called without a replica count and keeps its
\* own default number of valid replicas.
min_replicas == 2

\* repair_replicas.fn trimming whether or not there is a replica to trim.
repair_replicas_fn_AlwaysTrims(o, n, fault, fl) ==
    LET comp == has_complete_replicas(o, n)
        trim == has_trimmable_replicas(o, n)
        ok   == comp /\ ~trim
        o1   == trim_replicas(o, min_replicas, TRUE, FALSE).obj
        o2   == trim_replicas(o1, min_replicas, FALSE, TRUE).obj
    IN  IF Raises(fault, 0) THEN Except(RodsClauses, fault, fl, o, <<>>, ok)
        ELSE IF Raises(fault, 1) THEN Except(RodsClauses, fault, fl, o, <<>>, ok)
        ELSE IF Raises(fault, 2)
             THEN Except(RodsClauses, fault, fl, o1, <<"trim_valid">>, ok)
             ELSE Outcome(TRUE, TRUE, fl.print_repair, o2,
                          <<"trim_valid", "trim_invalid">>, ok)

\* repair_replicas.fn trimming the invalid replicas before the valid ones.
repair_replicas_fn_InvalidFirst(o, n, fault, fl) ==
    LET comp    == has_complete_replicas(o, n)
        trim    == has_trimmable_replicas(o, n)
        ok      == comp /\ ~trim
        valid   == trimmable_replicas(o, n)[1] > 0
        invalid == trimmable_replicas(o, n)[2] > 0
        o1      == IF invalid THEN trim_replicas(o, min_replicas, FALSE, TRUE).obj ELSE o
        ops1    == IF invalid THEN <<"trim_invalid">> ELSE <<>>
        o2      == IF valid THEN trim_replicas(o1, min_replicas, TRUE, FALSE).obj ELSE o1
        ops2    == IF valid THEN Append(ops1, "trim_valid") ELSE ops1
    IN  IF Raises(fault, 0) THEN Except(RodsClauses, fault, fl, o, <<>>, ok)
        ELSE IF trim
             THEN IF invalid /\ Raises(fault, 1)
                  THEN Except(RodsClauses, fault, fl, o, <<>>, ok)
                  ELSE IF valid /\ Raises(fault, Len(ops1) + 1)
                       THEN Except(RodsClauses, fault, fl, o1, ops1, ok)
                       ELSE Outcome(TRUE, TRUE, fl.print_repair, o2, ops2, ok)
             ELSE Outcome(TRUE, FALSE, FALSE, o, <<>>, ok)

repair_replicas_fn(o, n, fault, fl) ==
    LET comp    == has_complete_replicas(o, n)
        trim    == has_trimmable_replicas(o, n)
        ok      == comp /\ ~trim
        valid   == trimmable_replicas(o, n)[1] > 0
        invalid == trimmable_replicas(o, n)[2] > 0
        o1      == IF valid THEN trim_replicas(o, min_replicas, TRUE, FALSE).obj ELSE o
        ops1    == IF valid THEN <<"trim_valid">> ELSE <<>>
        o2      == IF invalid THEN trim_replicas(o1, min_replicas, FALSE, TRUE).obj ELSE o1
        ops2    == IF invalid THEN Append(ops1, "trim_invalid") ELSE ops1
    IN  IF Raises(fault, 0) THEN Except(RodsClauses, fault, fl, o, <<>>, ok)
        ELSE IF trim
             THEN IF valid /\ Raises(fault, 1)
                  THEN Except(RodsClauses, fault, fl, o, <<>>, ok)
                  ELSE IF invalid /\ Raises(fault, Len(ops1) + 1)
                       THEN Except(RodsClauses, fault, fl, o1, ops1, ok)
                       ELSE Outcome(TRUE, TRUE, fl.print_repair, o2, ops2, ok)
             ELSE Outcome(TRUE, FALSE, FALSE, o, <<>>, ok)

\* check_common_metadata.fn setting success only for complete metadata.
check_common_metadata_fn_PassOnly(o, n, fault, fl) ==
    LET ok == has_common_metadata(o) IN
    IF Raises(fault, 0) THEN Except(RodsClauses, fault, fl, o, <<>>, ok)
    ELSE IF has_common_metadata(o)
         THEN Outcome(TRUE, FALSE, fl.print_pass, o, <<>>, ok)
         ELSE Outcome(FALSE, FALSE, fl.print_fail, o, <<>>, ok)

check_common_metadata_fn(o, n, fault, fl) ==
    LET ok == has_common_metadata(o) IN
    IF Raises(fault, 0) THEN Except(RodsClauses, fault, fl, o, <<>>, ok)
    ELSE IF has_common_metadata(o)
         THEN Outcome(TRUE, FALSE, fl.print_pass, o, <<>>, ok)
         ELSE Outcome(TRUE, FALSE, fl.print_fail, o, <<>>, ok)

repair_common_metadata_fn(o, n, fault, fl) ==
    LET ok == has_common_metadata(o)
        e  == ensure_common_metadata(o)
    IN  IF Raises(fault, 0) THEN Except(RodsClauses, fault, fl, o, <<>>, ok)
        ELSE IF ~has_common_metadata(o)
             THEN IF Raises(fault, 1)
                  THEN Except(RodsClauses, fault, fl, o, <<>>, ok)
                  ELSE Outcome(TRUE, e.value, e.value /\ fl.print_repair, e.obj,
                               <<"ensure_common_metadata">>, ok)
             ELSE Outcome(FALSE, FALSE, FALSE, o, <<>>, ok)

Drivers == {"check_checksums", "repair_checksums", "check_replicas", "repair_replicas",
            "check_common_metadata", "repair_common_metadata"}

fn(d, o, n, fault, fl) ==
    CASE d = "check_checksums"        -> check_checksums_fn(o, n, fault, fl)
      [] d = "repair_checksums"       -> repair_checksums_fn(o, n, fault, fl)
      [] d = "check_replicas"         -> check_replicas_fn(o, n, fault, fl)
      [] d = "repair_replicas"        -> repair_replicas_fn(o, n, fault, fl)
      [] d = "check_common_metadata"  -> check_common_metadata_fn(o, n, fault, fl)
      [] d = "repair_common_metadata" -> repair_common_metadata_fn(o, n, fault, fl)

---------------------------------------------------------------------------
(* What a driver returns for the values rs its calls of fn returned *)

Returned(v) == [error |-> "none", value |-> v]
Raised(e) == [error |-> e, value |-> <<>>]

CountTrue(rs, field) == Cardinality({i \in DOMAIN rs : rs[i][field]})

\* results = tp.starmap(...); return len(results), num_succeeded, len(results) - num_succeeded
check_return(rs) ==
    Returned(<<Len(rs), CountTrue(rs, "success"), Len(rs) - CountTrue(rs, "success")>>)

\* The return of a repair driver counting every item not repaired as an error.
repair_return_ErrorsNotRepaired(rs) ==
    IF Len(rs) = 0 THEN Raised("ValueError")
    ELSE Returned(<<Len(rs), CountTrue(rs, "repair"), Len(rs) - CountTrue(rs, "repair")>>)

\* results, repaired = zip(*tp.starmap(...)): unpacking the zip of no
\* results raises ValueError.
repair_return(rs) ==
    IF Len(rs) = 0 THEN Raised("ValueError")
    ELSE Returned(<<Len(rs), CountTrue(rs, "repair"), Len(rs) - CountTrue(rs, "success")>>)

\* return all(succeeded)
metadata_return(rs) == Returned(\A i \in DOMAIN rs : rs[i].success)

driver_return(d, rs) ==
    CASE d \in {"check_checksums", "check_replicas"}   -> check_return(rs)
      [] d \in {"repair_checksums", "repair_replicas"} -> repair_return(rs)
      [] OTHER                                         -> metadata_return(rs)

---------------------------------------------------------------------------
(* Idle values of the variables a specification does not use *)

Pending == [pending |-> TRUE]
NoObject == "none"
NoCfg == "none"

ItemIdle == obj = NoObject /\ before = NoObject /\ log = <<>>

DrvIdle ==
    /\ next = 0 /\ pc = <<>> /\ cur = <<>> /\ out = <<>> /\ calls = <<>>
    /\ conn = {} /\ lock = {} /\ results = <<>> /\ writer = <<>>
    /\ status = "idle" /\ ret = <<>>

RmIdle ==
    /\ tree = <<>> /\ order = "none" /\ visited = {} /\ collections = <<>>
    /\ plan = <<>> /\ rmpc = "idle"

CopyIdle == store = <<>> /\ copies = <<>>

---------------------------------------------------------------------------
(* SpecItem: the checksum and replica functions applied to one object *)

ItemObjects == {o \in DataObjects : NoMeta(o)}

NumReplicas == 1..2

\* The defaults of the drivers' signatures.
DefaultFlags == [print_pass |-> TRUE, print_repair |-> TRUE, print_fail |-> FALSE]

\* The flags driver d takes; a flag it does not take keeps its default.
FlagsOf(d) ==
    IF d \in {"check_checksums", "check_replicas", "check_common_metadata"}
    THEN {f \in Flags : f.print_repair}
    ELSE {f \in Flags : f.print_pass}

\* The number of calls that modify the object fn of driver d can make.
MaxWrites(d) ==
    CASE d \in {"check_checksums", "check_replicas", "check_common_metadata"} -> 0
      [] d \in {"repair_checksums", "repair_common_metadata"} -> 1
      [] d = "repair_replicas" -> 2

FaultsOf(d) == {f \in Faults : f.at <= MaxWrites(d)}

InitItem ==
    /\ obj \in ItemObjects
    /\ before = obj
    /\ log = <<>>
    /\ cfg \in [num_replicas : NumReplicas]
    /\ DrvIdle
    /\ RmIdle
    /\ CopyIdle

\* One call fn(i, path) of driver d on the object, as a worker makes it.
Call(d) ==
    /\ Len(log) < MaxCalls
    /\ \E fault \in FaultsOf(d) :
         LET r == fn(d, obj, cfg.num_replicas, fault, DefaultFlags) IN
         /\ ~r.escaped
         /\ obj' = r.obj
         /\ before' = obj
         /\ log' = Append(log, [fn |-> d, success |-> r.success, repair |-> r.repair,
                                raised |-> r.raised, ops |-> r.ops,
                                avus |-> Cardinality(obj.md5)])
    /\ UNCHANGED <<cfg, nonItemVars>>

CheckChecksums == Call("check_checksums")
RepairChecksums == Call("repair_checksums")
CheckReplicas == Call("check_replicas")
RepairReplicas == Call("repair_replicas")
CheckCommonMetadata == Call("check_common_metadata")

NextItem ==
    \/ CheckChecksums \/ RepairChecksums \/ CheckReplicas \/ RepairReplicas
    \/ CheckCommonMetadata

SpecItem == InitItem /\ [][NextItem]_vars

Last == log[Len(log)]

---------------------------------------------------------------------------
(* Spec: one run of a driver *)

Lines == 1..MaxLines
Workers == 1..MaxThreads
Newline == 0

\* ThreadPool(num_threads): the number of worker threads.
ThreadPoolSize(c) == c.num_threads

\* A client pool sized by the number of threads.
ClientPoolSize_Threads(c) == c.num_threads

\* client_pool(num_clients): the number of baton clients.
ClientPoolSize(c) == c.num_clients

\* _print without the lock.
print_lock_free_NoLock(l) == TRUE

\* _print: `with print_lock` is entered when no thread holds the lock.
print_lock_free(l) == l = {}

\* What the driver keeps of a call of fn, and what the worker still has to do.
Summary(r) ==
    [success |-> r.success, repair |-> r.repair, raised |-> r.raised,
     escaped |-> r.escaped, print |-> r.print, ok |-> r.ok]

\* The objects a path of the input can name.
InputObjects(d) ==
    IF d \in {"check_common_metadata", "repair_common_metadata"}
    THEN {o \in DataObjects : Len(o.replicas) <= 1}
    ELSE ItemObjects

\* Every way a call of fn can go for driver d with flags fl.
OutcomeTable ==
    UNION {{<<d, fl, Summary(fn(d, o, 2, fault, fl))>> :
               o \in InputObjects(d), fault \in FaultsOf(d)} :
           d \in Drivers, fl \in Flags}

Outcomes(c) == {t[3] : t \in {x \in OutcomeTable : x[1] = c.driver /\ x[2] = c.flags}}

NoOutcome == [none |-> TRUE]

Init ==
    /\ cfg \in {c \in [driver : Drivers, num_threads : 1..MaxThreads,
                       num_clients : 1..MaxClients, lines : 0..MaxLines,
                       num_replicas : {2}, flags : Flags] :
                c.flags \in FlagsOf(c.driver)}
    /\ next = 1
    /\ pc = [w \in Workers |-> "idle"]
    /\ cur = [w \in Workers |-> 0]
    /\ out = [w \in Workers |-> NoOutcome]
    /\ calls = [i \in Lines |-> 0]
    /\ conn = {}
    /\ lock = {}
    /\ results = [i \in Lines |-> Pending]
    /\ writer = <<>>
    /\ status = "running"
    /\ ret = <<>>
    /\ ItemIdle
    /\ RmIdle
    /\ CopyIdle

\* A worker thread takes the next task of tp.starmap and calls fn(i, path).
Take(w) ==
    /\ status = "running"
    /\ w <= ThreadPoolSize(cfg)
    /\ pc[w] = "idle"
    /\ next <= cfg.lines
    /\ cur' = [cur EXCEPT ![w] = next]
    /\ calls' = [calls EXCEPT ![next] = @ + 1]
    /\ next' = next + 1
    /\ pc' = [pc EXCEPT ![w] = "acquire"]
    /\ UNCHANGED <<cfg, out, conn, lock, results, writer, status, ret, nonDrvVars>>

\* DataObject(p, pool=bp): the worker takes a client from the pool, waiting
\* while there is none.
Acquire(w) ==
    /\ pc[w] = "acquire"
    /\ Cardinality(conn) < ClientPoolSize(cfg)
    /\ conn' = conn \cup {w}
    /\ pc' = [pc EXCEPT ![w] = "storage"]
    /\ UNCHANGED <<cfg, next, cur, out, calls, lock, results, writer, status, ret, nonDrvVars>>

\* The body of fn keeping its client when the storage call raised.
Process_KeepsClientOnError(w) ==
    /\ pc[w] = "storage"
    /\ \E r \in Outcomes(cfg) :
         /\ out' = [out EXCEPT ![w] = r]
         /\ pc' = [pc EXCEPT ![w] = IF r.print THEN "lock" ELSE "return"]
         /\ conn' = IF r.raised THEN conn ELSE conn \ {w}
    /\ UNCHANGED <<cfg, next, cur, calls, lock, results, writer, status, ret, nonDrvVars>>

\* The body of fn up to its first _print: the reads and repairs of the
\* object, or the error they raise; the client goes back to the pool.
Process(w) ==
    /\ pc[w] = "storage"
    /\ \E r \in Outcomes(cfg) :
         /\ out' = [out EXCEPT ![w] = r]
         /\ pc' = [pc EXCEPT ![w] = IF r.print THEN "lock" ELSE "return"]
    /\ conn' = conn \ {w}
    /\ UNCHANGED <<cfg, next, cur, calls, lock, results, writer, status, ret, nonDrvVars>>

\* _print: with print_lock
LockPrint(w) ==
    /\ pc[w] = "lock"
    /\ print_lock_free(lock)
    /\ lock' = lock \cup {w}
    /\ pc' = [pc EXCEPT ![w] = "write"]
    /\ UNCHANGED <<cfg, next, cur, out, calls, conn, results, writer, status, ret, nonDrvVars>>

\* print(path, file=writer) writes the path, then the line end.
WritePath(w) ==
    /\ pc[w] = "write"
    /\ writer' = Append(writer, cur[w])
    /\ pc' = [pc EXCEPT ![w] = "newline"]
    /\ UNCHANGED <<cfg, next, cur, out, calls, conn, lock, results, status, ret, nonDrvVars>>

WriteNewline(w) ==
    /\ pc[w] = "newline"
    /\ writer' = Append(writer, Newline)
    /\ pc' = [pc EXCEPT ![w] = "unlock"]
    /\ UNCHANGED <<cfg, next, cur, out, calls, conn, lock, results, status, ret, nonDrvVars>>

\* _print leaving the `with print_lock` block without releasing the lock.
Unlock_KeepsLock(w) ==
    /\ pc[w] = "unlock"
    /\ pc' = [pc EXCEPT ![w] = "return"]
    /\ UNCHANGED <<cfg, next, cur, out, calls, conn, lock, results, writer, status, ret,
                   nonDrvVars>>

Unlock(w) ==
    /\ pc[w] = "unlock"
    /\ lock' = lock \ {w}
    /\ pc' = [pc EXCEPT ![w] = "return"]
    /\ UNCHANGED <<cfg, next, cur, out, calls, conn, results, writer, status, ret, nonDrvVars>>

\* fn returns (success[, repair]); an error that escaped fn ends the run.
Return(w) ==
    /\ pc[w] = "return"
    /\ results' = [results EXCEPT ![cur[w]] =
                     [success |-> out[w].success, repair |-> out[w].repair,
                      raised |-> out[w].raised, ok |-> out[w].ok]]
    /\ IF out[w].escaped
       THEN status' = "raised" /\ ret' = Raised("fn")
       ELSE UNCHANGED <<status, ret>>
    /\ cur' = [cur EXCEPT ![w] = 0]
    /\ out' = [out EXCEPT ![w] = NoOutcome]
    /\ pc' = [pc EXCEPT ![w] = "idle"]
    /\ UNCHANGED <<cfg, next, calls, conn, lock, writer, nonDrvVars>>

\* starmap has every result: the driver counts them and returns.
Finish ==
    /\ status = "running"
    /\ next > cfg.lines
    /\ \A w \in Workers : pc[w] = "idle"
    /\ LET r == driver_return(cfg.driver, SubSeq(results, 1, cfg.lines)) IN
         /\ status' = IF r.error = "none" THEN "returned" ELSE "raised"
         /\ ret' = r
    /\ UNCHANGED <<cfg, next, pc, cur, out, calls, conn, lock, results, writer, nonDrvVars>>

Next ==
    \/ \E w \in Workers :
         \/ Take(w) \/ Acquire(w) \/ Process(w) \/ LockPrint(w)
         \/ WritePath(w) \/ WriteNewline(w) \/ Unlock(w) \/ Return(w)
    \/ Finish

Spec == Init /\ [][Next]_vars

\* A driver run in which the threads are scheduled and every storage call
\* and every write returns: a step that stays possible is taken.
SpecFair == Spec /\ WF_vars(Next)

---------------------------------------------------------------------------
(* SpecRemove: write_safe_remove_commands *)

MaxDepth == 2     \* levels of a tree below its target
MaxItems == 3     \* items of a tree below its target

\* Names are strings, written as the sequences of their character codes.
Dash == 45
Slash == 47
Names == {<<97>>, <<97, Dash, 98>>, <<99>>}    \* "a", "a-b", "c"
Root == <<<<114>>>>                             \* the path "r"

\* A path is the sequence of its names.
Parent(p) == SubSeq(p, 1, Len(p) - 1)

RECURSIVE PathsBelow(_, _)
PathsBelow(p, depth) ==
    IF depth = 0 THEN {}
    ELSE UNION {{Append(p, nm)} \cup PathsBelow(Append(p, nm), depth - 1) : nm \in Names}

RECURSIVE SubsetsUpTo(_, _)
SubsetsUpTo(S, k) ==
    IF k = 0 THEN {{}}
    ELSE LET T == SubsetsUpTo(S, k - 1) IN T \cup {t \cup {x} : t \in T, x \in S}

IsPrefix(p, q) == Len(p) <= Len(q) /\ SubSeq(q, 1, Len(p)) = p

\* p lies beneath q
Beneath(p, q) == p # q /\ IsPrefix(q, p)

\* The trees: the items below the target and which of them are collections;
\* the parent of every item is the target or a collection of the tree.  A
\* target that is a data object has no items.
Trees ==
    {[target |-> Root, targetIsColl |-> FALSE, items |-> {}, colls |-> {}]} \cup
    UNION {{[target |-> Root, targetIsColl |-> TRUE, items |-> its, colls |-> cs] :
               cs \in {c \in SUBSET its :
                          \A p \in its : Parent(p) = Root \/ Parent(p) \in c}} :
           its \in SubsetsUpTo(PathsBelow(Root, MaxDepth), MaxItems)}

\* str(path): the names joined by "/".
RECURSIVE Str(_)
Str(p) == IF Len(p) = 1 THEN p[1] ELSE p[1] \o <<Slash>> \o Str(Tail(p))

\* a < b for two strings
RECURSIVE StrLess(_, _)
StrLess(a, b) ==
    IF a = <<>> THEN b # <<>>
    ELSE IF b = <<>> THEN FALSE
    ELSE IF a[1] = b[1] THEN StrLess(Tail(a), Tail(b))
    ELSE a[1] < b[1]

\* p < q for two PurePaths: the comparison of their tuples of names
RECURSIVE PartsLess(_, _)
PartsLess(p, q) ==
    IF p = <<>> THEN q # <<>>
    ELSE IF q = <<>> THEN FALSE
    ELSE IF p[1] = q[1] THEN PartsLess(Tail(p), Tail(q))
    ELSE StrLess(p[1], q[1])

\* The order of two collections, as the storage client defines it: by their
\* paths as strings or as PurePaths.
Orders == {"str", "parts"}

Less(ord, p, q) == IF ord = "str" THEN StrLess(Str(p), Str(q)) ELSE PartsLess(p, q)

\* collections.sort(reverse=True)
RECURSIVE SortReverse(_, _)
SortReverse(ord, S) ==
    IF S = {} THEN <<>>
    ELSE LET m == CHOOSE x \in S : \A y \in S \ {x} : Less(ord, y, x)
         IN  <<m>> \o SortReverse(ord, S \ {m})

\* collections.sort()
RECURSIVE SortForward(_, _)
SortForward(ord, S) ==
    IF S = {} THEN <<>>
    ELSE LET m == CHOOSE x \in S : \A y \in S \ {x} : Less(ord, x, y)
         IN  <<m>> \o SortForward(ord, S \ {m})

sort_reverse_Forward(ord, cs) == SortForward(ord, Range(cs))

sort_reverse(ord, cs) == SortReverse(ord, Range(cs))

InitRemove ==
    /\ tree \in Trees
    /\ order \in Orders
    /\ visited = {}
    /\ collections = <<>>
    /\ plan = <<>>
    /\ rmpc = "start"
    /\ cfg = NoCfg
    /\ ItemIdle
    /\ DrvIdle
    /\ CopyIdle

\* if isinstance(target, DataObject): _log_print("irm", target)
RemoveObject ==
    /\ rmpc = "start"
    /\ ~tree.targetIsColl
    /\ plan' = Append(plan, <<"irm", tree.target>>)
    /\ rmpc' = "done"
    /\ UNCHANGED <<tree, order, visited, collections, cfg, nonRmVars>>

\* else: collections = []
EnterCollection ==
    /\ rmpc = "start"
    /\ tree.targetIsColl
    /\ collections' = <<>>
    /\ rmpc' = "walk"
    /\ UNCHANGED <<tree, order, visited, plan, cfg, nonRmVars>>

\* One turn of `for item in target.iter_contents(recurse=True)`; the items
\* come in the order the storage client lists them.
Visit ==
    /\ rmpc = "walk"
    /\ \E item \in tree.items \ visited :
         /\ visited' = visited \cup {item}
         /\ IF item \notin tree.colls
            THEN plan' = Append(plan, <<"irm", item>>) /\ UNCHANGED collections
            ELSE collections' = Append(collections, item) /\ UNCHANGED plan
    /\ UNCHANGED <<tree, order, rmpc, cfg, nonRmVars>>

\* The loop ends; collections.sort(reverse=True)
Sort ==
    /\ rmpc = "walk"
    /\ visited = tree.items
    /\ collections' = sort_reverse(order, collections)
    /\ rmpc' = "emit"
    /\ UNCHANGED <<tree, order, visited, plan, cfg, nonRmVars>>

\* One turn of `for coll in collections: _log_print("irmdir", coll)`
RemoveCollection ==
    /\ rmpc = "emit"
    /\ collections # <<>>
    /\ plan' = Append(plan, <<"irmdir", Head(collections)>>)
    /\ collections' = Tail(collections)
    /\ UNCHANGED <<tree, order, visited, rmpc, cfg, nonRmVars>>

\* The end of write_safe_remove_commands without the command for the target.
RemoveTarget_NotWritten ==
    /\ rmpc = "emit"
    /\ collections = <<>>
    /\ rmpc' = "done"
    /\ UNCHANGED <<tree, order, visited, collections, plan, cfg, nonRmVars>>

\* _log_print("irmdir", target)
RemoveTarget ==
    /\ rmpc = "emit"
    /\ collections = <<>>
    /\ plan' = Append(plan, <<"irmdir", tree.target>>)
    /\ rmpc' = "done"
    /\ UNCHANGED <<tree, order, visited, collections, cfg, nonRmVars>>

NextRemove ==
    \/ RemoveObject \/ EnterCollection \/ Visit \/ Sort \/ RemoveCollection \/ RemoveTarget

SpecRemove == InitRemove /\ [][NextRemove]_vars

---------------------------------------------------------------------------
(* SpecCopy: copy(src, dest, acl, avu, exist_ok, recurse) *)

MaxCopyReplicas == 2     \* replicas of a data object that is copied

A == <<"a">>             \* the source path
B == <<"b">>             \* the destination path

\* copy reads the checksums of valid replicas only; the objects it is given
\* here have valid replicas, each with a checksum.
CopyReplicaLists ==
    UNION {[1..k -> [valid : {TRUE}, checksum : Checksums]] : k \in 1..MaxCopyReplicas}

DataObject(rs, avus, acl) == [kind |-> "obj", replicas |-> rs, avus |-> avus, acl |-> acl]
Collection(avus, acl) == [kind |-> "coll", replicas |-> <<>>, avus |-> avus, acl |-> acl]

\* DataObject.checksum(): the checksum iRODS reports for the object, that of
\* its first valid replica.
checksum(o) ==
    IF Len(ValidReplicas(o)) = 0 THEN NoChecksum ELSE ValidReplicas(o)[1].checksum

exists(st, p) == p \in DOMAIN st

\* RodsItem.rods_type: the type of the item found at the path, if any.
rods_type(st, p) == IF exists(st, p) THEN st[p].kind ELSE "none"

Name(p) == p[Len(p)]

\* src.contents(): the items directly in a collection
contents(st, p) == {q \in DOMAIN st : Len(q) = Len(p) + 1 /\ IsPrefix(p, q)}

\* A new item can be made at a path whose parent collection exists.
CanCreate(st, p) ==
    /\ ~exists(st, p)
    /\ Len(p) = 1 \/ rods_type(st, Parent(p)) = "coll"

CopyFlags == [acl : BOOLEAN, avu : BOOLEAN, exist_ok : BOOLEAN, recurse : BOOLEAN]

\* src.contents() yields the items of a collection in the order the storage
\* client lists them: by name, ascending or descending.
Listings == {"forward", "reverse"}

NameRank(nm) == CASE nm = "k" -> 1 [] nm = "x" -> 2 [] OTHER -> 0

FirstListed(items, listing) ==
    CHOOSE i \in items :
        \A j \in items :
            IF listing = "forward" THEN NameRank(Name(i)) <= NameRank(Name(j))
            ELSE NameRank(Name(i)) >= NameRank(Name(j))

\* What a call did: the store afterwards, the error raised (if any), the
\* value returned or added (n), and the numbers of remote copies (icp) and
\* of metadata/permission propagations (prop) made.
Step(st, n, err, icp) == [st |-> st, n |-> n, err |-> err, icp |-> icp]

\* _icp(src, dest, verify_checksum=True): `icp -K` makes the destination
\* object from the source's data, or fails with a RodsError.
icp(st, s, d) ==
    IF CanCreate(st, d) /\ Len(ValidReplicas(st[s])) > 0
    THEN Step(st @@ (d :> DataObject(<<[valid |-> TRUE, checksum |-> checksum(st[s])]>>,
                                     {}, {"owner"})),
              1, "none", 1)
    ELSE Step(st, 0, "RodsError", 1)

\* _maybe_copy_obj without the exist_ok branch.
maybe_copy_obj_AlwaysCopy(st, s, d, fl) == icp(st, s, d)

\* _maybe_copy_obj comparing only the checksums of source and destination.
maybe_copy_obj_ChecksumOnly(st, s, d, fl) ==
    IF fl.exist_ok /\ exists(st, d)
    THEN IF st[d].kind # "obj" THEN Step(st, 0, "RodsError", 0)
         ELSE IF checksum(st[s]) # checksum(st[d]) THEN Step(st, 0, "ChecksumError", 0)
         ELSE Step(st, 0, "none", 0)
    ELSE icp(st, s, d)

maybe_copy_obj(st, s, d, fl) ==
    IF fl.exist_ok /\ exists(st, d)
    THEN IF st[d].kind # "obj" THEN Step(st, 0, "RodsError", 0)
         ELSE IF checksum(st[s]) # checksum(st[d]) THEN Step(st, 0, "ChecksumError", 0)
         ELSE IF ~has_matching_checksums(st[s]) THEN Step(st, 0, "ChecksumError", 0)
         ELSE IF ~has_matching_checksums(st[d]) THEN Step(st, 0, "ChecksumError", 0)
         ELSE Step(st, 0, "none", 0)
    ELSE icp(st, s, d)

\* coll.create(exist_ok=exist_ok)
maybe_copy_coll(st, s, d, fl) ==
    IF fl.exist_ok /\ exists(st, d) THEN Step(st, 0, "none", 0)
    ELSE IF CanCreate(st, d)
         THEN Step(st @@ (d :> Collection({}, {"owner"})), 1, "none", 0)
         ELSE Step(st, 0, "RodsError", 0)

\* d.add_metadata(*s.metadata()); d.add_permissions(*s.permissions())
cp_avu_acl(st, s, d, fl) ==
    [st EXCEPT ![d].avus = IF fl.avu THEN @ \cup st[s].avus ELSE @,
               ![d].acl  = IF fl.acl THEN @ \cup st[s].acl ELSE @]

\* The value of copy: the store afterwards, the error raised (if any), the
\* tuple (np, nc) and the numbers of remote copies and of propagations.
Result(st, np, nc, err, n_icp, prop) ==
    [st |-> st, np |-> np, nc |-> nc, err |-> err, icp |-> n_icp, prop |-> prop]

\* The case of one item, counting a propagation of metadata or permissions
\* as a copy.
CopyOne_CountsPropagation(m, s, d, fl) ==
    IF m.err # "none" THEN Result(m.st, 1, 0, m.err, m.icp, 0)
    ELSE Result(cp_avu_acl(m.st, s, d, fl), 1,
                m.n + (IF fl.avu \/ fl.acl THEN 1 ELSE 0), "none", m.icp, 1)

\* The case of one item, propagating metadata and permissions only to an
\* item that was created or copied.
CopyOne_PropagatesCopiedOnly(m, s, d, fl) ==
    IF m.err # "none" THEN Result(m.st, 1, 0, m.err, m.icp, 0)
    ELSE IF m.n = 0 THEN Result(m.st, 1, 0, "none", m.icp, 0)
    ELSE Result(cp_avu_acl(m.st, s, d, fl), 1, m.n, "none", m.icp, 1)

CopyOne(m, s, d, fl) ==
    IF m.err # "none" THEN Result(m.st, 1, 0, m.err, m.icp, 0)
    ELSE Result(cp_avu_acl(m.st, s, d, fl), 1, m.n, "none", m.icp, 1)

RECURSIVE copy(_, _, _, _)
RECURSIVE copy_contents(_, _, _, _)

\* copy without the case of a collection copied into a data object.
copy_NoTypeCheck(st, src, dest, fl) ==
    LET ts == rods_type(st, src)
        td == rods_type(st, dest)
    IN  CASE ts = "coll" ->
               LET coll == Append(dest, Name(src))
                   r == CopyOne(maybe_copy_coll(st, src, coll, fl), src, coll, fl)
               IN  IF r.err = "none" /\ fl.recurse
                   THEN copy_contents(r, contents(r.st, src), coll, fl)
                   ELSE r
          [] ts = "obj" /\ td \in {"obj", "none"} ->
               CopyOne(maybe_copy_obj(st, src, dest, fl), src, dest, fl)
          [] ts = "obj" /\ td = "coll" ->
               LET o == Append(dest, Name(src))
               IN  CopyOne(maybe_copy_obj(st, src, o, fl), src, o, fl)
          [] OTHER ->
               Result(st, 0, 0, "ValueError", 0, 0)

copy(st, src, dest, fl) ==
    LET ts == rods_type(st, src)
        td == rods_type(st, dest)
    IN  CASE ts = "coll" /\ td = "obj" ->
               Result(st, 0, 0, "ValueError", 0, 0)
          [] ts = "coll" /\ td \in {"coll", "none"} ->
               LET coll == Append(dest, Name(src))
                   r == CopyOne(maybe_copy_coll(st, src, coll, fl), src, coll, fl)
               IN  IF r.err = "none" /\ fl.recurse
                   THEN copy_contents(r, contents(r.st, src), coll, fl)
                   ELSE r
          [] ts = "obj" /\ td \in {"obj", "none"} ->
               CopyOne(maybe_copy_obj(st, src, dest, fl), src, dest, fl)
          [] ts = "obj" /\ td = "coll" ->
               LET o == Append(dest, Name(src))
               IN  CopyOne(maybe_copy_obj(st, src, o, fl), src, o, fl)
          [] OTHER ->
               Result(st, 0, 0, "ValueError", 0, 0)

\* copy_contents going on with the next item after an item raised an error.
copy_contents_SkipsErrors(acc, items, coll, fl) ==
    IF items = {} THEN acc
    ELSE LET item == FirstListed(items, fl.listing)
             r == copy(acc.st, item, coll, fl)
         IN  copy_contents(IF r.err # "none" THEN acc
                           ELSE Result(r.st, acc.np + r.np, acc.nc + r.nc, r.err,
                                       acc.icp + r.icp, acc.prop + r.prop),
                           items \ {item}, coll, fl)

\* for item in src.contents(): np, nc = copy(item, Collection(coll.path), ...)
\* An error raised by copy for an item leaves the loop and the enclosing copy.
copy_contents(acc, items, coll, fl) ==
    IF items = {} \/ acc.err # "none" THEN acc
    ELSE LET item == FirstListed(items, fl.listing)
             r == copy(acc.st, item, coll, fl)
         IN  copy_contents(Result(r.st, acc.np + r.np, acc.nc + r.nc, r.err,
                                  acc.icp + r.icp, acc.prop + r.prop),
                           items \ {item}, coll, fl)

\* The stores copy starts from: nothing, a data object or a collection at A,
\* and at B nothing, a data object, or a collection that may hold an item of
\* the source's name, of whose items a data object may exist there with
\* another checksum.  The listing order is drawn where it can matter: for a
\* source collection that holds two items.
SourceObjects == {DataObject(rs, {"m1"}, {"p1"}) : rs \in CopyReplicaLists}
DestObjects == {DataObject(rs, {"m0"}, {"p0"}) : rs \in CopyReplicaLists}
OneObject == DataObject(<<[valid |-> TRUE, checksum |-> 1]>>, {"m2"}, {"p2"})
OtherObject == DataObject(<<[valid |-> TRUE, checksum |-> 2]>>, {"m0"}, {"p0"})

SourceStores ==
    {<<>>} \cup {(A :> o) : o \in SourceObjects} \cup
    {(A :> Collection({"m1"}, {"p1"})) @@ [p \in ps |-> IF Name(p) = "x" THEN OneObject
                                                      ELSE Collection({"m2"}, {"p2"})] :
        ps \in {q \in SUBSET {A \o <<"x">>, A \o <<"k">>, A \o <<"k", "x">>} :
                    A \o <<"k", "x">> \in q => A \o <<"k">> \in q}}

DestStores ==
    {<<>>} \cup {(B :> o) : o \in DestObjects} \cup
    {(B :> Collection({"m0"}, {"p0"})) @@ st :
        st \in {<<>>, (B \o A :> OneObject), (B \o A :> Collection({"m0"}, {"p0"})),
                 (B \o A :> Collection({"m0"}, {"p0"}))
                     @@ (B \o A \o <<"x">> :> OtherObject),
                 (B \o A :> Collection({"m0"}, {"p0"}))
                     @@ (B \o A \o <<"k">> :> Collection({"m0"}, {"p0"}))
                     @@ (B \o A \o <<"k", "x">> :> OtherObject)}}

InitCopy ==
    /\ store \in {s @@ d : s \in SourceStores, d \in DestStores}
    /\ copies = <<>>
    /\ cfg \in {c \in [listing : Listings] :
                  c.listing = "reverse" => Cardinality(contents(store, A)) >= 2}
    /\ ItemIdle
    /\ DrvIdle
    /\ RmIdle

\* One call copy(A, B, ...) and what is left in iRODS when it returns or raises.
CopyCall(fl) ==
    LET r == copy(store, A, B, fl @@ cfg) IN
    /\ store' = r.st
    /\ copies' = Append(copies,
                   [flags |-> fl, src |-> rods_type(store, A), dest |-> rods_type(store, B),
                    np |-> r.np, nc |-> r.nc, err |-> r.err, icp |-> r.icp,
                    prop |-> r.prop])
    /\ UNCHANGED <<cfg, nonCopyVars>>

FirstCopy == copies = <<>> /\ \E fl \in CopyFlags : CopyCall(fl)

SecondCopy == Len(copies) = 1 /\ \E fl \in CopyFlags : CopyCall(fl)

NextCopy == FirstCopy \/ SecondCopy

SpecCopy == InitCopy /\ [][NextCopy]_vars

---------------------------------------------------------------------------
(* Claims on the checksum functions (SpecItem) *)

\* The valid replicas of o all carry one and the same checksum.
AgreedChecksum(o) ==
    /\ Len(ValidReplicas(o)) >= 1
    /\ has_complete_checksums(o)
    /\ has_matching_checksums(o)

---------------------------------------------------------------------------
(* Claims on the replica functions (SpecItem) *)

NumValid(o) == Len(ValidReplicas(o))
NumInvalid(o) == Len(InvalidReplicas(o))

C12_TrimToExpected ==
    ( /\ Len(log) >= 1
      /\ Last.fn = "repair_replicas" /\ ~Last.raised
      /\ NumValid(before) > cfg.num_replicas )
    => /\ NumValid(obj) = cfg.num_replicas
       /\ NumInvalid(obj) = 0
       /\ Last.success /\ Last.repair

\* The example of C12: n = 2, three valid replicas and one invalid replica
\* are trimmed to two valid replicas by two trim operations.
C12_ExampleTrimmed ==
    ( /\ Len(log) >= 1
      /\ Last.fn = "repair_replicas" /\ ~Last.raised
      /\ cfg.num_replicas = 2
      /\ NumValid(before) = 3 /\ NumInvalid(before) = 1 )
    => /\ NumValid(obj) = 2 /\ NumInvalid(obj) = 0
       /\ Last.ops = <<"trim_valid", "trim_invalid">>
       /\ Last.success /\ Last.repair

CheckFunctions == {"check_checksums", "check_replicas", "check_common_metadata"}

\* C17: a call of the per-item function of check_checksums, check_replicas
\* or check_common_metadata makes no call that modifies the object, whatever
\* the object's state and whether or not an error is raised, and leaves the
\* object's replicas and AVUs as they were.
C17_ChecksReadOnly ==
    ( Len(log) >= 1 /\ Last.fn \in CheckFunctions )
    => /\ Last.ops = <<>>
       /\ ~Last.repair
       /\ obj = before
       /\ obj.replicas = before.replicas /\ obj.md5 = before.md5

\* Two checks of an object that repair_checksums would repair: it has one
\* valid replica with a checksum and no checksum AVU.
C17_Witness ==
    /\ Len(log) = 2
    /\ log[1].fn = "check_checksums" /\ ~log[1].raised /\ ~log[1].success
    /\ log[2].fn = "check_common_metadata" /\ ~log[2].raised
    /\ AgreedChecksum(obj) /\ obj.md5 = {}
    /\ ensure_matching_checksum_metadata(obj).value

TrimOps(o, n) ==
    (IF NumValid(o) > n THEN <<"trim_valid">> ELSE <<>>)
    \o (IF NumInvalid(o) > 0 THEN <<"trim_invalid">> ELSE <<>>)

---------------------------------------------------------------------------
(* Claims on a driver run (Spec) *)

TupleDrivers == {"check_checksums", "repair_checksums", "check_replicas", "repair_replicas"}

Input == 1..cfg.lines

Done(i) == results[i] # Pending

InFlight == {w \in Workers : pc[w] # "idle"}

\* C1: each of the four drivers calls fn exactly once per input line and
\* returns a tuple whose first element is the number of input lines, for
\* every input, worker count and pool size.
C1_EveryLineOnce ==
    cfg.driver \in TupleDrivers =>
        /\ \A i \in Lines : calls[i] <= 1
        /\ status # "running" =>
              /\ status = "returned"
              /\ \A i \in Input : calls[i] = 1
              /\ ret.value[1] = cfg.lines

\* C2: an error raised while one item is processed makes that item a failure
\* that is counted in the error count; it never ends the run or leaves the
\* driver; every line is still processed once, a returned result is never
\* changed afterwards, and an item that raised nothing has the outcome its
\* own state gives it.
C2_ItemFailure(i) ==
    Done(i) /\ results[i].raised => ~results[i].success /\ ~results[i].repair

InPrint == {w \in Workers : pc[w] \in {"write", "newline", "unlock"}}

WholeLines(s) ==
    \A k \in 1..Len(s) :
        /\ s[k] # Newline => (k < Len(s) => s[k + 1] = Newline)
        /\ s[k] = Newline => (k > 1 /\ s[k - 1] # Newline)

C3_PrintExclusive ==
    status # "idle" =>
        /\ Cardinality(InPrint) <= 1
        /\ Cardinality(lock) <= 1
        /\ WholeLines(writer)

C3_Witness ==
    \E w1, w2 \in Workers :
        /\ pc[w1] = "newline"
        /\ pc[w2] = "lock"
        /\ writer = <<cur[w1]>>

\* C4: the calls of fn in flight never exceed num_threads and the clients
\* taken from the pool never exceed num_clients, whichever of the two is
\* larger.
C4_Bounded ==
    status # "idle" =>
        /\ Cardinality(InFlight) <= cfg.num_threads
        /\ Cardinality(conn) <= cfg.num_clients

C4_Witness ==
    /\ cfg.num_threads > cfg.num_clients
    /\ Cardinality(InFlight) = cfg.num_threads
    /\ Cardinality(conn) = cfg.num_clients
    /\ \E w \in Workers : pc[w] = "acquire"

\* C9: repair_common_metadata reports an item that already has complete
\* common metadata as a success without repairing it, and a run over items
\* that are all complete and raise nothing returns True.
C9_CompleteIsSuccess ==
    cfg.driver = "repair_common_metadata" =>
        /\ \A i \in Input :
              Done(i) /\ results[i].ok /\ ~results[i].raised
                  => results[i].success /\ ~results[i].repair
        /\ ( /\ status = "returned"
             /\ \A i \in Input : results[i].ok /\ ~results[i].raised )
           => ret.value = TRUE

\* C10 as stated: check_common_metadata reports an item checked without an
\* exception as a success if and only if has_common_metadata holds for it.
C10_SuccessIffComplete ==
    cfg.driver = "check_common_metadata" =>
        \A i \in Input :
            Done(i) /\ ~results[i].raised => (results[i].success <=> results[i].ok)

\* C10 as amended: check_common_metadata reports an item as a success if and
\* only if no exception was raised while checking it, whether or not its
\* common metadata is complete; has_common_metadata only decides which flag
\* (print_pass or print_fail) governs the printing of its path; the driver
\* returns True exactly when no item raised.
C10_SuccessIffChecked ==
    cfg.driver = "check_common_metadata" =>
        /\ \A i \in Input : Done(i) => (results[i].success <=> ~results[i].raised)
        /\ \A w \in Workers :
              out[w] # NoOutcome =>
                  out[w].print = IF ~out[w].raised /\ out[w].ok
                                 THEN cfg.flags.print_pass
                                 ELSE cfg.flags.print_fail
        /\ status = "returned" => ret.value = (\A i \in Input : ~results[i].raised)

C10_Witness ==
    /\ cfg.driver = "check_common_metadata"
    /\ status = "returned"
    /\ cfg.lines >= 1
    /\ ~results[1].ok /\ ~results[1].raised /\ results[1].success
    /\ ret.value = TRUE

\* The number of times the path of line i has been written.
Written(i) == Cardinality({k \in 1..Len(writer) : writer[k] = i})

\* C16: when repair_checksums has returned, the path of every item that
\* required repair and was not repaired, because the repair was refused or
\* because an error was raised, has been written exactly once if print_fail
\* is set, and no failed item's path has been written if it is not.
C16_FailPrinted ==
    ( cfg.driver = "repair_checksums" /\ status = "returned" )
    => \A i \in Input :
          ~results[i].success
          => /\ cfg.flags.print_fail /\ ~results[i].ok => Written(i) = 1
             /\ ~cfg.flags.print_fail => Written(i) = 0

\* The part of C16 on raised errors: the path of an item whose repair raised
\* an error is written exactly once if print_fail is set; no failed item's
\* path is written if it is not.
C16_RaisedPrinted ==
    ( cfg.driver = "repair_checksums" /\ status = "returned" )
    => \A i \in Input :
          ~results[i].success
          => /\ cfg.flags.print_fail /\ results[i].raised => Written(i) = 1
             /\ ~cfg.flags.print_fail => Written(i) = 0

C24_Terminates == <>(status # "running" /\ \A i \in Input : Done(i))

\* A finished run with more threads than clients in which every line was
\* printed.
C24_Witness ==
    /\ status = "returned"
    /\ cfg.num_threads > cfg.num_clients
    /\ cfg.lines = MaxLines
    /\ \A i \in Input : Written(i) = 1

Succeeded == {i \in Input : results[i].success}
Repaired == {i \in Input : results[i].repair}

\* C25: the tuple a driver returns agrees with the outcomes of the items:
\* for check_checksums and check_replicas the second element is the number
\* of successes and successes plus errors make the total; for
\* repair_checksums and repair_replicas the third element is the number of
\* items without success, the second the number of repaired items, every
\* repaired item is a success, so repaired plus errors never exceed the
\* total and no item is counted as both.
C25_TupleConsistent ==
    ( cfg.driver \in TupleDrivers /\ status = "returned" )
    => /\ ret.value[1] = cfg.lines
       /\ ret.value[3] = cfg.lines - Cardinality(Succeeded)
       /\ cfg.driver \in {"check_checksums", "check_replicas"}
             => /\ ret.value[2] = Cardinality(Succeeded)
                /\ ret.value[2] + ret.value[3] = ret.value[1]
       /\ cfg.driver \in {"repair_checksums", "repair_replicas"}
             => /\ ret.value[2] = Cardinality(Repaired)
                /\ Repaired \subseteq Succeeded
                /\ ret.value[2] + ret.value[3] <= ret.value[1]

\* A repair run of two items: one repaired, one that needed no repair.
C25_Witness ==
    /\ cfg.driver \in {"repair_checksums", "repair_replicas"}
    /\ status = "returned"
    /\ cfg.lines = 2
    /\ results[1].repair /\ results[2].success /\ ~results[2].repair
    /\ ret.value = <<2, 1, 0>>

\* C26: a run of check_checksums, check_replicas, repair_checksums or
\* repair_replicas over an empty input returns (0, 0, 0) and raises nothing.
C26_EmptyInput ==
    ( cfg.driver \in TupleDrivers /\ cfg.lines = 0 /\ status # "running" )
    => /\ status = "returned"
       /\ ret = Returned(<<0, 0, 0>>)

\* The part of C26 on the check drivers: over an empty input they return
\* (0, 0, 0).
C26_EmptyCheck ==
    ( /\ cfg.driver \in {"check_checksums", "check_replicas"}
      /\ cfg.lines = 0 /\ status # "running" )
    => /\ status = "returned"
       /\ ret = Returned(<<0, 0, 0>>)

---------------------------------------------------------------------------
(* Claims on the removal plan (SpecRemove) *)

PlanIndex(p) == CHOOSE k \in 1..Len(plan) : plan[k][2] = p

InPlan(p) == \E k \in 1..Len(plan) : plan[k][2] = p

AllItems == tree.items \cup {tree.target}

\* C5: in the finished plan the removal command of every collection comes
\* strictly after the removal commands of all items beneath it, whatever the
\* names of its siblings; at no point of the plan has a collection been
\* removed before an item beneath it.
C5_ChildrenFirst ==
    rmpc # "idle" =>
        /\ \A c \in AllItems, p \in AllItems :
              InPlan(c) /\ Beneath(p, c) => InPlan(p) /\ PlanIndex(p) < PlanIndex(c)
        /\ rmpc = "done" => \A p \in AllItems : InPlan(p)

\* The tree with the collections "a", "a-b" and "a/c" below the target.
C5_Witness ==
    /\ rmpc = "done"
    /\ tree.colls = {Root \o <<<<97>>>>, Root \o <<<<97, Dash, 98>>>>,
                     Root \o <<<<97>>, <<99>>>>}
    /\ Len(plan) = 4

IsCollection(p) == p \in tree.colls \/ (p = tree.target /\ tree.targetIsColl)

\* C23: the finished plan has exactly one command for every item of the
\* target tree, the target included, and no other command: "irm" for a data
\* object and "irmdir" for a collection; no "irm" comes after an "irmdir";
\* the last command removes the target; for a target that is a data object
\* the plan is the one command "irm target".
C23_PlanComplete ==
    /\ rmpc # "idle" =>
          \A j, k \in 1..Len(plan) : j < k /\ plan[j][1] = "irmdir" => plan[k][1] = "irmdir"
    /\ rmpc = "done" =>
          /\ Len(plan) = Cardinality(AllItems)
          /\ \A k \in 1..Len(plan) : plan[k][2] \in AllItems
          /\ \A p \in AllItems :
                /\ Cardinality({k \in 1..Len(plan) : plan[k][2] = p}) = 1
                /\ plan[PlanIndex(p)][1] = IF IsCollection(p) THEN "irmdir" ELSE "irm"
          /\ plan[Len(plan)][2] = tree.target
          /\ ~tree.targetIsColl => plan = <<(<<"irm", tree.target>>)>>

\* The finished plan of a tree with a collection, a data object in it and a
\* data object beside it.
C23_Witness ==
    /\ rmpc = "done"
    /\ Cardinality(tree.items) = 3 /\ Cardinality(tree.colls) = 1
    /\ \E p \in tree.items \ tree.colls : Len(p) = 3
    /\ Len(plan) = 4

---------------------------------------------------------------------------
(* Claims on copy (SpecCopy) *)

\* C6: after a copy of the object A to the destination B that did not exist,
\* a second copy of A to B with exist_ok=True returns (1, 0), raises no
\* error and makes no remote copy, provided the replicas of A and of B each
\* agree and A and B have the same checksum.
C6_CopyIdempotent ==
    ( /\ Len(copies) = 2
      /\ copies[1].src = "obj" /\ copies[1].dest = "none" /\ copies[1].err = "none"
      /\ copies[2].flags.exist_ok
      /\ has_matching_checksums(store[A]) /\ has_matching_checksums(store[B])
      /\ checksum(store[A]) = checksum(store[B]) )
    => /\ copies[2].err = "none"
       /\ copies[2].np = 1 /\ copies[2].nc = 0
       /\ copies[2].icp = 0

C6_Witness ==
    /\ Len(copies) = 2
    /\ copies[1].src = "obj" /\ copies[1].dest = "none" /\ copies[1].err = "none"
    /\ copies[1].nc = 1 /\ copies[1].icp = 1
    /\ copies[2].flags.exist_ok
    /\ Len(store[A].replicas) = 2
    /\ copies[2].err = "none" /\ copies[2].np = 1 /\ copies[2].nc = 0

\* The pairs of source and destination type for which copy has no case.
InvalidCombination(ts, td) == (ts = "coll" /\ td = "obj") \/ ts = "none"

LastCopy == copies[Len(copies)]

\* C13: a copy of a collection onto an existing data object, and a copy of
\* a source that is neither a collection nor a data object, raises ValueError
\* whatever the flags and the contents, and makes no remote copy, creates no
\* item, propagates no metadata or permission and leaves iRODS as it was.
C13_InvalidCombination ==
    [][ ( /\ Len(copies') = Len(copies) + 1
          /\ InvalidCombination(rods_type(store, A), rods_type(store, B)) )
        => /\ LastCopy'.err = "ValueError"
           /\ LastCopy'.np = 0 /\ LastCopy'.nc = 0
           /\ LastCopy'.icp = 0 /\ LastCopy'.prop = 0
           /\ store' = store ]_vars

\* A recursive copy, with exist_ok, of a collection that has contents onto a
\* data object.
C13_Witness ==
    /\ Len(copies) >= 1
    /\ copies[1].src = "coll" /\ copies[1].dest = "obj"
    /\ copies[1].flags.exist_ok /\ copies[1].flags.recurse
    /\ contents(store, A) # {}
    /\ copies[1].err = "ValueError"

\* The path a copy of the data object A to B writes to: B, or the path of
\* A's name in B when B is a collection.
Target(st) == IF rods_type(st, B) = "coll" THEN Append(B, Name(A)) ELSE B

\* C14: a copy with exist_ok=True of a data object to a destination where a
\* data object exists raises ChecksumError when the checksums of the two
\* differ, and when they are equal but the replicas of the source or those
\* of the destination do not agree among themselves; it then makes no remote
\* copy, propagates no metadata or permission and leaves iRODS as it was.
C14_ChecksumMismatch ==
    [][ ( /\ Len(copies') = Len(copies) + 1
          /\ LastCopy'.flags.exist_ok
          /\ rods_type(store, A) = "obj"
          /\ rods_type(store, Target(store)) = "obj"
          /\ \/ checksum(store[A]) # checksum(store[Target(store)])
             \/ ~has_matching_checksums(store[A])
             \/ ~has_matching_checksums(store[Target(store)]) )
        => /\ LastCopy'.err = "ChecksumError"
           /\ LastCopy'.icp = 0 /\ LastCopy'.prop = 0
           /\ store' = store ]_vars

\* Source and destination have the same checksum and the replicas of the
\* source disagree; metadata and permissions were asked for.
C14_Witness ==
    /\ Len(copies) >= 1
    /\ copies[1].src = "obj" /\ copies[1].dest = "obj"
    /\ copies[1].flags.exist_ok /\ copies[1].flags.avu /\ copies[1].flags.acl
    /\ checksum(store[A]) = checksum(store[B])
    /\ ~has_matching_checksums(store[A])
    /\ has_matching_checksums(store[B])
    /\ copies[1].err = "ChecksumError"

\* The items of the tree at A: A and everything beneath it.
SourceTree(st) == {p \in DOMAIN st : IsPrefix(A, p)}

\* C15: a copy that raises nothing returns (processed, copied) with
\* 0 <= copied <= processed; processed is 1 for a data object and for a
\* collection copied without recurse, and the number of items of the source
\* tree, its root included, for a recursive copy; copied is the number of
\* items the copy made at the destination, which leaves out the items that
\* exist_ok skipped and is the same whether or not metadata and permissions
\* are propagated to the items visited.
C15_Counts ==
    [][ ( Len(copies') = Len(copies) + 1 /\ LastCopy'.err = "none" )
        => /\ 0 <= LastCopy'.nc /\ LastCopy'.nc <= LastCopy'.np
           /\ LastCopy'.np =
                 IF rods_type(store, A) = "obj" \/ ~LastCopy'.flags.recurse
                 THEN 1 ELSE Cardinality(SourceTree(store))
           /\ LastCopy'.nc = Cardinality(DOMAIN store') - Cardinality(DOMAIN store)
           /\ LastCopy'.prop = LastCopy'.np ]_vars

\* A recursive copy with exist_ok and metadata of a collection of three
\* items on two levels: its root existed at the destination and was skipped,
\* the items were made.
C15_Witness ==
    /\ Len(copies) >= 1
    /\ copies[1].src = "coll" /\ copies[1].err = "none"
    /\ copies[1].flags.recurse /\ copies[1].flags.exist_ok /\ copies[1].flags.avu
    /\ copies[1].np = 4 /\ copies[1].nc = 3
    /\ copies[1].prop = 4

\* The path the item of the source tree at p is copied to when B is a
\* collection.
DestPath(p) == B \o p

\* The items of the tree at p in the order a recursive copy visits them.
RECURSIVE Traversal(_, _, _)
RECURSIVE TraversalOf(_, _, _)

Traversal(st, p, listing) == <<p>> \o TraversalOf(st, contents(st, p), listing)

TraversalOf(st, items, listing) ==
    IF items = {} THEN <<>>
    ELSE LET i == FirstListed(items, listing)
         IN  Traversal(st, i, listing) \o TraversalOf(st, items \ {i}, listing)

\* The data object at p has a data object at its destination that copy does
\* not accept: another checksum, or replicas that disagree.
Inconsistent(st, p) ==
    /\ st[p].kind = "obj"
    /\ rods_type(st, DestPath(p)) = "obj"
    /\ \/ checksum(st[p]) # checksum(st[DestPath(p)])
       \/ ~has_matching_checksums(st[p])
       \/ ~has_matching_checksums(st[DestPath(p)])

\* C21: in a recursive copy with exist_ok of a collection into a collection,
\* the ChecksumError raised for the first inconsistent data object of the
\* traversal leaves the top-level copy; no item after that object in the
\* traversal is created, copied or given metadata or permissions, that
\* object's destination is left as it was, and every item before it stays
\* copied, with the metadata and permissions it was given.
C21_AbortOnChecksumError ==
    [][ ( /\ Len(copies') = Len(copies) + 1
          /\ LastCopy'.flags.recurse /\ LastCopy'.flags.exist_ok
          /\ rods_type(store, A) = "coll"
          /\ rods_type(store, B) = "coll"
          /\ rods_type(store, DestPath(A)) # "obj"
          /\ \E p \in SourceTree(store) : Inconsistent(store, p) )
        => LET T == Traversal(store, A, cfg.listing)
               f == CHOOSE k \in 1..Len(T) :
                        /\ Inconsistent(store, T[k])
                        /\ \A j \in 1..(k - 1) : ~Inconsistent(store, T[j])
           IN  /\ LastCopy'.err = "ChecksumError"
               /\ \A k \in (f + 1)..Len(T) :
                     /\ exists(store', DestPath(T[k])) <=> exists(store, DestPath(T[k]))
                     /\ exists(store, DestPath(T[k]))
                           => store'[DestPath(T[k])] = store[DestPath(T[k])]
               /\ store'[DestPath(T[f])] = store[DestPath(T[f])]
               /\ \A k \in 1..(f - 1) :
                     /\ exists(store', DestPath(T[k]))
                     /\ store'[DestPath(T[k])].kind = store[T[k]].kind
                     /\ LastCopy'.flags.avu
                           => store[T[k]].avus \subseteq store'[DestPath(T[k])].avus
                     /\ LastCopy'.flags.acl
                           => store[T[k]].acl \subseteq store'[DestPath(T[k])].acl
               /\ LastCopy'.prop = f - 1
               /\ \A p \in DOMAIN store : p \in DOMAIN store' ]_vars

\* A recursive copy that copied the data object a/x, then met the
\* inconsistent a/k/x.
C21_Witness ==
    /\ Len(copies) >= 1
    /\ copies[1].src = "coll" /\ copies[1].flags.recurse /\ copies[1].flags.avu
    /\ copies[1].err = "ChecksumError"
    /\ cfg.listing = "reverse"
    /\ copies[1].nc = 1 /\ copies[1].icp = 1
    /\ store[DestPath(A \o <<"x">>)].avus = OneObject.avus
    /\ store[DestPath(A \o <<"k", "x">>)] = OtherObject

\* C22: a copy with exist_ok of a collection into a collection where the
\* collection of its name exists does not create that collection and does
\* not count it as copied; the collection is given the metadata of the
\* source if avu is set and its permissions if acl is set, in addition to
\* those it had; no copy removes an item, an AVU or a permission.
C22_ExistingCollection ==
    [][ Len(copies') = Len(copies) + 1
        => /\ \A p \in DOMAIN store :
                 /\ p \in DOMAIN store'
                 /\ store[p].avus \subseteq store'[p].avus
                 /\ store[p].acl \subseteq store'[p].acl
           /\ ( /\ LastCopy'.flags.exist_ok
                /\ rods_type(store, A) = "coll"
                /\ rods_type(store, B) = "coll"
                /\ rods_type(store, DestPath(A)) = "coll" )
              => /\ store'[DestPath(A)].kind = "coll"
                 /\ store'[DestPath(A)].avus =
                       store[DestPath(A)].avus
                       \cup (IF LastCopy'.flags.avu THEN store[A].avus ELSE {})
                 /\ store'[DestPath(A)].acl =
                       store[DestPath(A)].acl
                       \cup (IF LastCopy'.flags.acl THEN store[A].acl ELSE {})
                 /\ LastCopy'.prop >= 1
                 /\ LastCopy'.nc <= LastCopy'.np - 1
                 /\ ~LastCopy'.flags.recurse
                       => /\ LastCopy'.err = "none"
                          /\ LastCopy'.np = 1 /\ LastCopy'.nc = 0
                          /\ DOMAIN store' = DOMAIN store ]_vars

\* The collection existed with its own metadata and permissions and was
\* given those of the source.
C22_Witness ==
    /\ Len(copies) = 1
    /\ copies[1].src = "coll" /\ copies[1].dest = "coll"
    /\ copies[1].flags.exist_ok /\ copies[1].flags.avu /\ copies[1].flags.acl
    /\ ~copies[1].flags.recurse
    /\ copies[1].err = "none" /\ copies[1].nc = 0
    /\ store[DestPath(A)].avus = {"m0", "m1"}
    /\ store[DestPath(A)].acl = {"p0", "p1"}

====
